---- MODULE Spec2Model ----
(***************************************************************************)
(* Model of main.c of the PSoC 6 "SAR ADC low-power sensing - thermistor   *)
(* and ambient light sensor" example: the deep-sleep / FIFO-drain main     *)
(* loop, the per-channel IIR filter, the light-intensity conversion, the   *)
(* LED hysteresis and the rate-divided UART report.                        *)
(*                                                                         *)
(* The SAR ADC, its FIFO, the interrupt controller and the UART are the    *)
(* environment: they run concurrently with the main loop.                  *)
(***************************************************************************)
EXTENDS Integers, Sequences, FiniteSets, TLC

VARIABLES
    pc,               \* position of main()
    fifo_intr_flag,   \* volatile uint8 fifo_intr_flag
    fifo,             \* contents of the SAR FIFO (hardware), oldest first
    data_count,       \* uint8 data_count
    fifo_data,        \* cy_stc_sar_fifo_read_t fifo_data
    first_run,        \* uint8 first_run[CHANNEL_COUNT]
    filt_var,         \* int32 filt_var[CHANNEL_COUNT]
    filtered_data,    \* int32 filtered_data[CHANNEL_COUNT]
    fd_written,       \* whether filtered_data[ch] has been assigned yet
    temperature,      \* arguments of the last get_temperature call
    light_intensity,  \* uint8 light_intensity
    led,              \* level driven on CYBSP_USER_LED2
    display_delay,    \* uint16 display_delay
    uart_tx_active,   \* cyhal_uart_is_tx_active()
    history           \* observation record (not program state), see below

vars == <<pc, fifo_intr_flag, fifo, data_count, fifo_data, first_run, filt_var,
          filtered_data, fd_written, temperature, light_intensity, led,
          display_delay, uart_tx_active, history>>

(***************************************************************************)
(* Program constants                                                       *)
(***************************************************************************)
THERMISTOR_SENSOR_CHANNEL == 1
REF_RESISTOR_CHANNEL == 0
ALS_SENSOR_CHANNEL == 2
CHANNEL_COUNT == 3
ALS_OFFSET == 20
ALS_LOW_THRESHOLD == 45
ALS_HIGH_THRESHOLD == 55
ALS_DARK_AMBIENT_RAW_DATA == 65520
ALS_DARK_AMBIENT_DATA == 0

Channels == 0 .. (CHANNEL_COUNT - 1)

(***************************************************************************)
(* Bounds of the model                                                     *)
(***************************************************************************)
\* samples the SAR ADC produces in one run
MaxSamples == 2

\* raw 16-bit results the ADC delivers, per channel
RawValues(ch) ==
    IF ch = ALS_SENSOR_CHANNEL THEN {390, 600, 670, 25000, 65520}
    ELSE IF ch = THERMISTOR_SENSOR_CHANNEL THEN {2000, 2100}
    ELSE {0, 40000}

\* samples the SAR ADC produces in one run of the filter-bank runs
MaxBankSamples == 3

\* raw results per channel in the filter-bank runs
BankValues(ch) ==
    IF ch = ALS_SENSOR_CHANNEL THEN {600}
    ELSE IF ch = THERMISTOR_SENSOR_CHANNEL THEN {2000, 2100}
    ELSE {1000}

\* arguments of get_light_intensity outside the range of the filtered
\* readings: the multiples of LightStride up to LightSteps times it, and
\* LightJump, the distance between the two arguments of a pair of calls
LightStride == 4099
LightSteps == 5000
LightJump == 400000

\* calls of get_light_intensity in one run of the conversion runs
MaxLightCalls == 2

\* samples the FIFO holds at most in the dark runs
MaxDarkFifo == 1

\* raw values of a dark ambient-light sample
DarkRawValues == {ALS_DARK_AMBIENT_RAW_DATA, 65535}

\* ambient-light samples filtered before the light is blocked
DarkStarts == {<< >>, <<65519>>}

\* values an unassigned filtered_data entry may be read as
UninitValues == {0, 2000}

(***************************************************************************)
(* C integer arithmetic                                                    *)
(***************************************************************************)
Pow2(n) == 2 ^ n

\* conversion to a signed integer of w bits (two's complement wrap)
ToSigned(x, w) ==
    LET m == x % Pow2(w)
    IN  IF m >= Pow2(w - 1) THEN m - Pow2(w) ELSE m

\* int32 values are kept as TLC's own 32-bit integers: an int32 overflow
\* stops the evaluation with an error, it never wraps silently
ToInt16(x) == ToSigned(x, 16)
ToUint8(x) == x % 256
ToUint16(x) == x % 65536

\* variant: >> of a negative value rounds towards zero
Shr_TowardZero(x, n) ==
    IF x >= 0 THEN x \div Pow2(n) ELSE -((-x) \div Pow2(n))

\* x << n and x >> n on int32 (>> of a negative value is arithmetic on the
\* ARM compilers the example builds with; << multiplies by 2^n)
Shl(x, n) == x * Pow2(n)
Shr(x, n) == x \div Pow2(n)

\* x & 0x00000080, then >> 7
Bit7(x) == (x % 256) \div 128

(***************************************************************************)
(* low_pass_filter: the new accumulator and the value returned             *)
(***************************************************************************)
\* variant: the whole difference is added, no smoothing
FilterWeight_Unity(data_source) == 256

FilterWeight(data_source) ==
    IF data_source = ALS_SENSOR_CHANNEL THEN 4 ELSE 160

\* variant: the weighted difference is added twice
lpf_accumulate_Doubled(acc, input, data_source) ==
    acc + (Shr(Shl(input, 8) - acc, 8) * FilterWeight(data_source) * 2)

lpf_accumulate(acc, input, data_source) ==
    acc + (Shr(Shl(input, 8) - acc, 8) * FilterWeight(data_source))

lpf_output(acc) == Shr(acc, 8) + Bit7(acc)

(***************************************************************************)
(* get_light_intensity                                                     *)
(***************************************************************************)
\* variant: ALS_OFFSET is not subtracted
als_scaled_NoOffset(adc_count) ==
    LET a == IF adc_count < 0 THEN 0 ELSE adc_count
    IN  Shr(a * 100, 10)

\* ((adc_count * 100) >> 10) - ALS_OFFSET, adc_count being 0 when negative
als_scaled(adc_count) ==
    LET a == IF adc_count < 0 THEN 0 ELSE adc_count
    IN  Shr(a * 100, 10) - ALS_OFFSET

\* the value the int16 variable als_level holds after the assignment
als_level(adc_count) == ToInt16(als_scaled(adc_count))

\* variant: the level is not limited from below
get_light_intensity_NoLowerClamp(adc_count) ==
    LET hi == IF als_level(adc_count) > 100 THEN 100 ELSE als_level(adc_count)
    IN  ToUint8(hi)

get_light_intensity(adc_count) ==
    LET hi == IF als_level(adc_count) > 100 THEN 100 ELSE als_level(adc_count)
        lo == IF hi < 0 THEN 0 ELSE hi
    IN  ToUint8(lo)

(***************************************************************************)
(* One iteration of the drain loop's body for the sample read into         *)
(* fifo_data: the first-run seeding or the IIR filter call.                *)
(* Yields the new accumulator, filtered reading and filter input.          *)
(***************************************************************************)
IsDarkFirst(s) ==
    s.channel = ALS_SENSOR_CHANNEL /\ s.value >= ALS_DARK_AMBIENT_RAW_DATA

\* the value a first sample is stored as
FirstRunValue(s) ==
    IF IsDarkFirst(s) THEN ALS_DARK_AMBIENT_DATA ELSE s.value

\* variant: the seed is stored without the 8 fractional bits
FirstRunAccumulator_NoShift(s) ==
    IF IsDarkFirst(s) THEN ALS_DARK_AMBIENT_DATA ELSE s.value

\* the accumulator a first sample seeds
FirstRunAccumulator(s) ==
    IF IsDarkFirst(s) THEN ALS_DARK_AMBIENT_DATA ELSE Shl(s.value, 8)

\* variant: the raw value is passed without the cast
FilterInput_Unsigned(s) == s.value

\* the argument main passes to low_pass_filter: (int16)fifo_data.value
FilterInput(s) == ToInt16(s.value)

\* variant: first_run[] is left as it is, every sample seeds again
ProcessSample_KeepsFirstRun(s, first, acc) ==
    IF first
    THEN [acc |-> FirstRunAccumulator(s), out |-> FirstRunValue(s),
          first |-> first, seeded |-> TRUE]
    ELSE LET a == lpf_accumulate(acc, FilterInput(s), s.channel)
         IN  [acc |-> a, out |-> lpf_output(a), first |-> first,
              seeded |-> FALSE]

\* what one pass of the while body does to the sample's channel
ProcessSample(s, first, acc) ==
    IF first
    THEN [acc |-> FirstRunAccumulator(s), out |-> FirstRunValue(s),
          first |-> FALSE, seeded |-> TRUE]
    ELSE LET a == lpf_accumulate(acc, FilterInput(s), s.channel)
         IN  [acc |-> a, out |-> lpf_output(a), first |-> FALSE,
              seeded |-> FALSE]

(***************************************************************************)
(* State after construction: main() not yet run, globals zero-initialised  *)
(***************************************************************************)
NoSample == [channel |-> 0, value |-> 0]

EmptyHistory ==
    [produced    |-> 0,      \* samples the ADC has produced
     cycle_mod5  |-> 0,      \* drain cycles started since start-up, modulo 5
     lines       |-> 0,      \* status lines printed in the current cycle
     count_reads |-> 0,      \* reads of the FIFO count in the current cycle
     snap        |-> << >>,  \* FIFO contents when the count was read
     popped      |-> << >>,  \* samples popped in the current cycle
     applied     |-> << >>,  \* filter applications in the current cycle
     arrived     |-> << >>,  \* samples stored since the count was read
     led_before  |-> "OFF",  \* LED level when the last cycle ended
     low_seen    |-> FALSE,  \* some cycle had an intensity < 45
     steps       |-> << >>,  \* what the current cycle has done, in order
     init_failed |-> FALSE,  \* a bring-up call returned a failure
     seeds       |-> [c \in Channels |-> 0],      \* first-run seedings
     drained     |-> [c \in Channels |-> << >>],  \* raw values drained
     adc_count   |-> 0,      \* argument of the get_light_intensity call
     light_calls |-> << >>,  \* the calls made: argument, level, result
     dark_raw    |-> 0,      \* raw value of the dark samples of the run
     isr_ran     |-> FALSE]  \* the handler ran after the last clear

Init ==
    /\ pc = "cybsp_init"
    /\ fifo_intr_flag = FALSE
    /\ fifo = << >>
    /\ data_count = 0
    /\ fifo_data = NoSample
    /\ first_run = [c \in Channels |-> TRUE]
    /\ filt_var = [c \in Channels |-> 0]
    /\ filtered_data = [c \in Channels |-> 0]
    /\ fd_written = [c \in Channels |-> FALSE]
    /\ temperature = [therm_count |-> 0, ref_count |-> 0]
    /\ light_intensity = 0
    /\ led = "OFF"
    /\ display_delay = 0
    /\ uart_tx_active = FALSE
    /\ history = EmptyHistory

\* the sampling timer runs and interrupts are enabled: main() is in its loop
LoopPcs == {"tx_wait", "deep_sleep", "asleep", "check_flag", "clear_flag",
            "get_count", "drain", "convert", "control_led", "report"}

Running == pc \in LoopPcs

mainVars == <<data_count, fifo_data, first_run, filt_var, filtered_data,
              fd_written, temperature, light_intensity, led, display_delay>>

\* variant: the result of the call is not looked at
InitCall_IgnoresResult(from, to) ==
    /\ pc = from
    /\ \E ok \in BOOLEAN :
          /\ pc' = to
          /\ history' = [history EXCEPT !.init_failed = ~ok]

(***************************************************************************)
(* Start-up of main(): each bring-up call may fail, and CY_ASSERT(0) then  *)
(* stops the program.                                                      *)
(***************************************************************************)
InitCall(from, to) ==
    /\ pc = from
    /\ \E ok \in BOOLEAN :
          /\ pc' = IF ok THEN to ELSE "halted"
          /\ history' = [history EXCEPT !.init_failed = ~ok]

main_cybsp_init ==
    /\ InitCall("cybsp_init", "retarget_io_init")
    /\ UNCHANGED <<fifo_intr_flag, fifo, mainVars, uart_tx_active>>

\* cy_retarget_io_init, then the banner is printed
main_retarget_io_init ==
    /\ InitCall("retarget_io_init", "analog_init")
    /\ uart_tx_active' = (pc' = "analog_init")
    /\ UNCHANGED <<fifo_intr_flag, fifo, mainVars>>

\* Cy_SysAnalog_Init, Cy_SysAnalog_DeepSleepInit, Cy_SAR_Init,
\* Cy_SAR_CommonInit: the first failure stops the program
init_analog_resources ==
    /\ \/ InitCall("analog_init", "deepsleep_init")
       \/ InitCall("deepsleep_init", "sar_init")
       \/ InitCall("sar_init", "sar_common_init")
       \/ InitCall("sar_common_init", "gpio_init")
    /\ UNCHANGED <<fifo_intr_flag, fifo, mainVars, uart_tx_active>>

\* cyhal_gpio_init(CYBSP_USER_LED2, ..., CYBSP_LED_STATE_OFF)
main_gpio_init ==
    /\ InitCall("gpio_init", "timer_enable")
    /\ led' = "OFF"
    /\ UNCHANGED <<fifo_intr_flag, fifo, data_count, fifo_data, first_run,
                   filt_var, filtered_data, fd_written, temperature,
                   light_intensity, display_delay, uart_tx_active>>

\* __enable_irq(); Cy_SysAnalog_TimerEnable(PASS); enter for(;;)
main_timer_enable ==
    /\ pc = "timer_enable"
    /\ pc' = "tx_wait"
    /\ UNCHANGED <<fifo_intr_flag, fifo, mainVars, uart_tx_active, history>>

(***************************************************************************)
(* The main loop                                                           *)
(***************************************************************************)
\* variant: the UART is not waited for
main_tx_wait_no_wait ==
    /\ pc = "tx_wait"
    /\ pc' = "deep_sleep"
    /\ UNCHANGED <<fifo_intr_flag, fifo, mainVars, uart_tx_active, history>>

\* while(cyhal_uart_is_tx_active(...) == true);
main_tx_wait ==
    /\ pc = "tx_wait"
    /\ ~uart_tx_active
    /\ pc' = "deep_sleep"
    /\ UNCHANGED <<fifo_intr_flag, fifo, mainVars, uart_tx_active, history>>

\* Cy_SysPm_CpuEnterDeepSleep(CY_SYSPM_WAIT_FOR_INTERRUPT): the CPU stops
\* until the next interrupt
main_enter_deep_sleep ==
    /\ pc = "deep_sleep"
    /\ pc' = "asleep"
    /\ UNCHANGED <<fifo_intr_flag, fifo, mainVars, uart_tx_active, history>>

\* how many drained samples the observation record has logged: it logs
\* the samples counted in produced
Logged(h) ==
    Len(h.drained[0]) + Len(h.drained[1]) + Len(h.drained[2])

\* the per-cycle part of the observation record, at the start of a cycle
StartCycle(h) ==
    [h EXCEPT !.cycle_mod5 = (@ + 1) % 5, !.lines = 0]

\* and when the cycle's last step is done
EndCycle(h) ==
    [h EXCEPT !.count_reads = 0, !.snap = << >>, !.popped = << >>,
              !.applied = << >>, !.arrived = << >>, !.led_before = led,
              !.steps = << >>]

\* variant: every wake-up starts a drain cycle, flag or not
main_check_flag_unconditional ==
    /\ pc = "check_flag"
    /\ pc' = "clear_flag"
    /\ history' = StartCycle(history)
    /\ UNCHANGED <<fifo_intr_flag, fifo, mainVars, uart_tx_active>>

\* if(fifo_intr_flag): the flag is read
main_check_flag ==
    /\ pc = "check_flag"
    /\ IF fifo_intr_flag
       THEN /\ pc' = "clear_flag"
            /\ history' = StartCycle(history)
       ELSE /\ pc' = "tx_wait"
            /\ UNCHANGED history
    /\ UNCHANGED <<fifo_intr_flag, fifo, mainVars, uart_tx_active>>

\* variant: the flag is left set
main_clear_flag_keeps_flag ==
    /\ pc = "clear_flag"
    /\ pc' = "get_count"
    /\ history' = [history EXCEPT !.isr_ran = FALSE]
    /\ UNCHANGED <<fifo_intr_flag, fifo, mainVars, uart_tx_active>>

\* fifo_intr_flag = false;
main_clear_flag ==
    /\ pc = "clear_flag"
    /\ fifo_intr_flag' = FALSE
    /\ pc' = "get_count"
    /\ history' = [history EXCEPT !.isr_ran = FALSE]
    /\ UNCHANGED <<fifo, mainVars, uart_tx_active>>

\* variant: the count is taken one short (LEVEL instead of LEVEL+1)
FifoGetDataCount_OneShort ==
    IF Len(fifo) > 0 THEN ToUint8(Len(fifo) - 1) ELSE 0

\* Cy_SAR_FifoGetDataCount(SAR0), stored in a uint8
FifoGetDataCount == ToUint8(Len(fifo))

\* data_count = Cy_SAR_FifoGetDataCount(SAR0);
main_get_count ==
    /\ pc = "get_count"
    /\ data_count' = FifoGetDataCount
    /\ pc' = "drain"
    /\ history' = [history EXCEPT !.count_reads = @ + 1, !.snap = fifo]
    /\ UNCHANGED <<fifo_intr_flag, fifo, fifo_data, first_run, filt_var,
                   filtered_data, fd_written, temperature, light_intensity,
                   led, display_delay, uart_tx_active>>

\* variant: every channel uses the filter state of channel 0
FilterSlot_Shared(s) == 0

\* variant: the filter state of the next channel is used
FilterSlot_Next(s) == (s.channel + 1) % CHANNEL_COUNT

\* the channel whose filter state a sample updates
FilterSlot(s) == s.channel

\* one iteration of while(data_count > 0): data_count--, Cy_SAR_FifoRead,
\* then the first-run seeding or low_pass_filter
main_drain_sample ==
    /\ pc = "drain"
    /\ data_count > 0
    /\ LET s == Head(fifo)
           c == FilterSlot(s)
           r == ProcessSample(s, first_run[c], filt_var[c])
       IN  /\ data_count' = ToUint8(data_count - 1)
           /\ fifo' = Tail(fifo)
           /\ fifo_data' = s
           /\ filt_var' = [filt_var EXCEPT ![c] = r.acc]
           /\ filtered_data' = [filtered_data EXCEPT ![c] = r.out]
           /\ fd_written' = [fd_written EXCEPT ![c] = TRUE]
           /\ first_run' = [first_run EXCEPT ![c] = r.first]
           /\ history' = [history EXCEPT
                  !.popped = Append(@, s),
                  !.applied = Append(@, [slot |-> c, sample |-> s,
                                         first |-> first_run[c]]),
                  !.steps = Append(@, "filter"),
                  !.seeds[c] = @ + (IF r.seeded THEN 1 ELSE 0),
                  !.drained[s.channel] =
                      IF Logged(history) < history.produced
                      THEN Append(@, s.value) ELSE @]
    /\ pc' = "drain"
    /\ UNCHANGED <<fifo_intr_flag, temperature, light_intensity, led,
                   display_delay, uart_tx_active>>

\* variant: the flag is cleared after the drain instead of before it
main_drain_done_clears_flag ==
    /\ pc = "drain"
    /\ data_count = 0
    /\ pc' = "convert"
    /\ fifo_intr_flag' = FALSE
    /\ UNCHANGED <<fifo, mainVars, uart_tx_active, history>>

\* data_count == 0: the while loop is left
main_drain_done ==
    /\ pc = "drain"
    /\ data_count = 0
    /\ pc' = "convert"
    /\ UNCHANGED <<fifo_intr_flag, fifo, mainVars, uart_tx_active, history>>

\* the values a read of filtered_data[ch] can give
ReadFiltered(ch) ==
    IF fd_written[ch] THEN {filtered_data[ch]} ELSE UninitValues

\* variant: the LED decision is skipped after the conversions
main_convert_skips_led ==
    /\ pc = "convert"
    /\ \E t \in ReadFiltered(THERMISTOR_SENSOR_CHANNEL),
          r \in ReadFiltered(REF_RESISTOR_CHANNEL),
          a \in ReadFiltered(ALS_SENSOR_CHANNEL) :
            /\ temperature' = [therm_count |-> t, ref_count |-> r]
            /\ light_intensity' = get_light_intensity(a)
    /\ pc' = "report"
    /\ history' = [history EXCEPT
           !.steps = @ \o <<"get_temperature", "get_light_intensity">>]
    /\ UNCHANGED <<fifo_intr_flag, fifo, data_count, fifo_data, first_run,
                   filt_var, filtered_data, fd_written, led, display_delay,
                   uart_tx_active>>

\* variant: no temperature conversion when the reference reading is 0
main_convert_guards_ref ==
    /\ pc = "convert"
    /\ \E t \in ReadFiltered(THERMISTOR_SENSOR_CHANNEL),
          r \in ReadFiltered(REF_RESISTOR_CHANNEL),
          a \in ReadFiltered(ALS_SENSOR_CHANNEL) :
            /\ temperature' = IF r = 0 THEN temperature
                              ELSE [therm_count |-> t, ref_count |-> r]
            /\ light_intensity' = get_light_intensity(a)
            /\ history' = [history EXCEPT
                   !.steps = @ \o (IF r = 0 THEN <<"get_light_intensity">>
                                   ELSE <<"get_temperature",
                                          "get_light_intensity">>)]
    /\ pc' = "control_led"
    /\ UNCHANGED <<fifo_intr_flag, fifo, data_count, fifo_data, first_run,
                   filt_var, filtered_data, fd_written, led, display_delay,
                   uart_tx_active>>

\* temperature = get_temperature(...); light_intensity = get_light_intensity(...)
main_convert ==
    /\ pc = "convert"
    /\ \E t \in ReadFiltered(THERMISTOR_SENSOR_CHANNEL),
          r \in ReadFiltered(REF_RESISTOR_CHANNEL),
          a \in ReadFiltered(ALS_SENSOR_CHANNEL) :
            /\ temperature' = [therm_count |-> t, ref_count |-> r]
            /\ light_intensity' = get_light_intensity(a)
    /\ pc' = "control_led"
    /\ history' = [history EXCEPT
           !.steps = @ \o <<"get_temperature", "get_light_intensity">>]
    /\ UNCHANGED <<fifo_intr_flag, fifo, data_count, fifo_data, first_run,
                   filt_var, filtered_data, fd_written, led, display_delay,
                   uart_tx_active>>

\* variant: a single threshold, no dead band
LedControl_NoDeadBand(level, intensity) ==
    IF intensity < ALS_LOW_THRESHOLD THEN "ON" ELSE "OFF"

\* variant: the thresholds themselves switch the LED
LedControl_Inclusive(level, intensity) ==
    IF intensity <= ALS_LOW_THRESHOLD THEN "ON"
    ELSE IF intensity >= ALS_HIGH_THRESHOLD THEN "OFF"
    ELSE level

\* the LED level after the hysteresis decision
LedControl(level, intensity) ==
    IF intensity < ALS_LOW_THRESHOLD THEN "ON"
    ELSE IF intensity > ALS_HIGH_THRESHOLD THEN "OFF"
    ELSE level

main_control_led ==
    /\ pc = "control_led"
    /\ led' = LedControl(led, light_intensity)
    /\ pc' = "report"
    /\ history' = [history EXCEPT
           !.low_seen = @ \/ light_intensity < ALS_LOW_THRESHOLD,
           !.steps = Append(@, "control_led")]
    /\ UNCHANGED <<fifo_intr_flag, fifo, data_count, fifo_data, first_run,
                   filt_var, filtered_data, fd_written, temperature,
                   light_intensity, display_delay, uart_tx_active>>

\* variant: the counter is compared with 5
ReportDue_Late(delay) == delay = 5

\* if(display_delay == 4)
ReportDue(delay) == delay = 4

\* variant: the counter restarts at 1
NextDisplayDelay_RestartAtOne(delay) ==
    IF delay = 4 THEN 1 ELSE ToUint16(delay + 1)

\* display_delay after the reporting step
NextDisplayDelay(delay) ==
    IF ReportDue(delay) THEN 0 ELSE ToUint16(delay + 1)

main_report ==
    /\ pc = "report"
    /\ display_delay' = NextDisplayDelay(display_delay)
    /\ IF ReportDue(display_delay)
       THEN /\ uart_tx_active' = TRUE
            /\ history' = EndCycle([history EXCEPT !.lines = @ + 1])
       ELSE /\ UNCHANGED uart_tx_active
            /\ history' = EndCycle(history)
    /\ pc' = "tx_wait"
    /\ UNCHANGED <<fifo_intr_flag, fifo, data_count, fifo_data, first_run,
                   filt_var, filtered_data, fd_written, temperature,
                   light_intensity, led>>

(***************************************************************************)
(* The environment: SAR ADC and FIFO, interrupt, UART                      *)
(***************************************************************************)
\* the ADC stores one conversion result in the FIFO
sar_sample ==
    /\ Running
    /\ history.produced < MaxSamples
    /\ \E ch \in Channels : \E v \in RawValues(ch) :
          LET s == [channel |-> ch, value |-> v]
          IN  /\ fifo' = Append(fifo, s)
              /\ history' = [history EXCEPT
                     !.produced = @ + 1,
                     !.arrived = IF history.count_reads > 0
                                 THEN Append(@, s) ELSE @]
    /\ UNCHANGED <<pc, fifo_intr_flag, mainVars, uart_tx_active>>

\* the FIFO level interrupt; it wakes the CPU when it is in deep sleep
sar_fifo_interrupt_handler ==
    /\ Running
    /\ fifo_intr_flag' = TRUE
    /\ pc' = IF pc = "asleep" THEN "check_flag" ELSE pc
    /\ history' = [history EXCEPT !.isr_ran = TRUE]
    /\ UNCHANGED <<fifo, mainVars, uart_tx_active>>

\* another interrupt ends the deep sleep
other_wakeup ==
    /\ pc = "asleep"
    /\ pc' = "check_flag"
    /\ UNCHANGED <<fifo_intr_flag, fifo, mainVars, uart_tx_active, history>>

\* the UART has sent its last byte
uart_tx_done ==
    /\ uart_tx_active
    /\ uart_tx_active' = FALSE
    /\ UNCHANGED <<pc, fifo_intr_flag, fifo, mainVars, history>>

Next ==
    \/ main_cybsp_init
    \/ main_retarget_io_init
    \/ init_analog_resources
    \/ main_gpio_init
    \/ main_timer_enable
    \/ main_tx_wait
    \/ main_enter_deep_sleep
    \/ main_check_flag
    \/ main_clear_flag
    \/ main_get_count
    \/ main_drain_sample
    \/ main_drain_done
    \/ main_convert
    \/ main_control_led
    \/ main_report
    \/ sar_sample
    \/ sar_fifo_interrupt_handler
    \/ other_wakeup
    \/ uart_tx_done

Spec == Init /\ [][Next]_vars

(***************************************************************************)
(* Filter-bank runs: the same program with longer runs of fewer different  *)
(* raw values, so that samples of different channels interleave            *)
(***************************************************************************)
\* the ADC stores one conversion result in the FIFO
bank_sample ==
    /\ Running
    /\ history.produced < MaxBankSamples
    /\ \E ch \in Channels : \E v \in BankValues(ch) :
          LET s == [channel |-> ch, value |-> v]
          IN  /\ fifo' = Append(fifo, s)
              /\ history' = [history EXCEPT
                     !.produced = @ + 1,
                     !.arrived = IF history.count_reads > 0
                                 THEN Append(@, s) ELSE @]
    /\ UNCHANGED <<pc, fifo_intr_flag, mainVars, uart_tx_active>>

BankNext ==
    \/ main_cybsp_init
    \/ main_retarget_io_init
    \/ init_analog_resources
    \/ main_gpio_init
    \/ main_timer_enable
    \/ main_tx_wait
    \/ main_enter_deep_sleep
    \/ main_check_flag
    \/ main_clear_flag
    \/ main_get_count
    \/ main_drain_sample
    \/ main_drain_done
    \/ main_convert
    \/ main_control_led
    \/ main_report
    \/ bank_sample
    \/ sar_fifo_interrupt_handler
    \/ other_wakeup
    \/ uart_tx_done

BankSpec == Init /\ [][BankNext]_vars

(***************************************************************************)
(* Conversion runs: get_light_intensity called on its own, once or on a    *)
(* pair of arguments a <= b                                                *)
(***************************************************************************)
\* largest int32
INT32_MAX == 2147483647

\* the largest adc_count for which adc_count * 100 does not overflow
MaxAdcCount == INT32_MAX \div 100

\* every value a filtered reading can take: the first-run value is a
\* uint16, low_pass_filter moves the accumulator towards (int16)raw << 8
\* and can pass it by less than the weight
ReadingRange == (-Pow2(15) - 1) .. Pow2(16)

LightInputs ==
    ReadingRange
      \cup {x \in {k * LightStride : k \in (-LightSteps) .. LightSteps} :
               x >= -MaxAdcCount /\ x <= MaxAdcCount}
      \cup {-MaxAdcCount, MaxAdcCount - 1, MaxAdcCount}

LightInit ==
    /\ pc = "light_call"
    /\ fifo_intr_flag = FALSE
    /\ fifo = << >>
    /\ data_count = 0
    /\ fifo_data = NoSample
    /\ first_run = [c \in Channels |-> TRUE]
    /\ filt_var = [c \in Channels |-> 0]
    /\ filtered_data = [c \in Channels |-> 0]
    /\ fd_written = [c \in Channels |-> FALSE]
    /\ temperature = [therm_count |-> 0, ref_count |-> 0]
    /\ light_intensity = 0
    /\ led = "OFF"
    /\ display_delay = 0
    /\ uart_tx_active = FALSE
    /\ \E a \in LightInputs :
          history = [EmptyHistory EXCEPT !.adc_count = a]

\* light_intensity = get_light_intensity(adc_count)
light_convert ==
    /\ pc = "light_call"
    /\ light_intensity' = get_light_intensity(history.adc_count)
    /\ history' = [history EXCEPT
           !.light_calls = Append(@, [adc_count |-> history.adc_count,
                                      als_level |-> als_level(history.adc_count),
                                      result |-> light_intensity'])]
    /\ pc' = "light_done"
    /\ UNCHANGED <<fifo_intr_flag, fifo, data_count, fifo_data, first_run,
                   filt_var, filtered_data, fd_written, temperature, led,
                   display_delay, uart_tx_active>>

\* the next call gets an argument that is not smaller
light_next ==
    /\ pc = "light_done"
    /\ Len(history.light_calls) < MaxLightCalls
    /\ \E d \in {0, 1, LightJump} :
          /\ history.adc_count + d <= MaxAdcCount
          /\ history' = [history EXCEPT !.adc_count = @ + d]
    /\ pc' = "light_call"
    /\ UNCHANGED <<fifo_intr_flag, fifo, mainVars, uart_tx_active>>

LightNext == light_convert \/ light_next

LightSpec == LightInit /\ [][LightNext]_vars

(***************************************************************************)
(* Dark runs: main() is in its loop, the filters have run on some samples, *)
(* and from now on every sample is a dark ambient-light sample             *)
(***************************************************************************)
RECURSIVE FilterRun(_, _)
\* first_run, accumulator and reading of channel c after the drain loop
\* has processed the raw values of seq
FilterRun(seq, c) ==
    IF seq = << >>
    THEN [first |-> TRUE, acc |-> 0, out |-> 0]
    ELSE LET before == FilterRun(SubSeq(seq, 1, Len(seq) - 1), c)
             s == [channel |-> c, value |-> seq[Len(seq)]]
             r == ProcessSample(s, before.first, before.acc)
         IN  [first |-> r.first, acc |-> r.acc, out |-> r.out]

DarkInit ==
    /\ pc = "tx_wait"
    /\ fifo_intr_flag = FALSE
    /\ fifo = << >>
    /\ data_count = 0
    /\ fifo_data = NoSample
    /\ temperature = [therm_count |-> 0, ref_count |-> 0]
    /\ display_delay = 0
    /\ uart_tx_active = FALSE
    /\ \E seq \in DarkStarts, raw \in DarkRawValues, level \in {"ON", "OFF"} :
          LET als == FilterRun(seq, ALS_SENSOR_CHANNEL)
              intensity == IF als.first THEN 0
                           ELSE get_light_intensity(als.out)
          IN  /\ first_run = [c \in Channels |->
                                c = ALS_SENSOR_CHANNEL /\ als.first]
              /\ fd_written = [c \in Channels |->
                                c # ALS_SENSOR_CHANNEL \/ ~als.first]
              /\ filt_var = [c \in Channels |->
                                IF c = ALS_SENSOR_CHANNEL THEN als.acc ELSE 0]
              /\ filtered_data = [c \in Channels |->
                                IF c = ALS_SENSOR_CHANNEL THEN als.out ELSE 0]
              /\ light_intensity = intensity
              /\ led = IF als.first THEN "OFF"
                       ELSE LedControl(level, intensity)
              /\ history = [EmptyHistory EXCEPT
                               !.dark_raw = raw, !.led_before = led]

\* the ADC stores a dark ambient-light result in the FIFO
dark_sample ==
    /\ Running
    /\ Len(fifo) < MaxDarkFifo
    /\ fifo' = Append(fifo, [channel |-> ALS_SENSOR_CHANNEL,
                             value |-> history.dark_raw])
    /\ UNCHANGED <<pc, fifo_intr_flag, mainVars, uart_tx_active, history>>

\* the steps of main() in its loop
main_loop_step ==
    \/ main_tx_wait
    \/ main_enter_deep_sleep
    \/ main_check_flag
    \/ main_clear_flag
    \/ main_get_count
    \/ main_drain_sample
    \/ main_drain_done
    \/ main_convert
    \/ main_control_led
    \/ main_report

DarkNext ==
    \/ main_loop_step
    \/ dark_sample
    \/ sar_fifo_interrupt_handler
    \/ other_wakeup
    \/ uart_tx_done

\* the CPU runs, the ADC keeps sampling and interrupting, the UART sends
DarkSpec ==
    /\ DarkInit
    /\ [][DarkNext]_vars
    /\ WF_vars(main_loop_step)
    /\ WF_vars(dark_sample)
    /\ WF_vars(sar_fifo_interrupt_handler)
    /\ WF_vars(uart_tx_done)

(***************************************************************************)
(* Filter runs: one channel's filter, after some samples, gets the same    *)
(* raw value in every batch; only the drain loop is looked at              *)
(***************************************************************************)
\* raw values of the samples
FilterRawValues ==
    {0, 1, 7, 100, 2000, 2100, 2101, 32767, 32768, 40000, 65519, 65520, 65535}

\* the samples the channel has filtered before
FilterStarts ==
    {<< >>}
      \cup {<<v>> : v \in {0, 2000, 65535}}
      \cup {<<v, w>> : v \in {0, 2000, 65535}, w \in {1, 2100, 40000, 65535}}

FilterInit ==
    /\ pc = "drain"
    /\ fifo_intr_flag = FALSE
    /\ data_count = 1
    /\ fifo_data = NoSample
    /\ temperature = [therm_count |-> 0, ref_count |-> 0]
    /\ light_intensity = 0
    /\ led = "OFF"
    /\ display_delay = 0
    /\ uart_tx_active = FALSE
    /\ history = EmptyHistory
    /\ \E ch \in Channels, seq \in FilterStarts, raw \in FilterRawValues :
          LET st == FilterRun(seq, ch)
          IN  /\ fifo = <<[channel |-> ch, value |-> raw]>>
              /\ first_run = [c \in Channels |-> c # ch \/ st.first]
              /\ fd_written = [c \in Channels |-> c = ch /\ ~st.first]
              /\ filt_var = [c \in Channels |-> IF c = ch THEN st.acc ELSE 0]
              /\ filtered_data = [c \in Channels |->
                                    IF c = ch THEN st.out ELSE 0]

\* the next batch holds the same sample again
filter_next_batch ==
    /\ pc = "drain"
    /\ data_count = 0
    /\ fifo = << >>
    /\ fifo' = <<fifo_data>>
    /\ data_count' = FifoGetDataCount'
    /\ history' = EndCycle(history)
    /\ UNCHANGED <<pc, fifo_intr_flag, fifo_data, first_run, filt_var,
                   filtered_data, fd_written, temperature, light_intensity,
                   led, display_delay, uart_tx_active>>

FilterNext == main_drain_sample \/ filter_next_batch

\* the drain loop runs and batches keep arriving
FilterSpec == FilterInit /\ [][FilterNext]_vars /\ WF_vars(FilterNext)

(***************************************************************************)
(* Steps of main() as seen from outside                                    *)
(***************************************************************************)
\* main pops a sample: one iteration of the drain loop
DrainStep == pc = "drain" /\ data_count > 0 /\ fifo' # fifo /\ Len(fifo') < Len(fifo)

\* main leaves the LED decision
LedStep == pc = "control_led" /\ pc' = "report"

\* main leaves the reporting step
ReportStep == pc = "report" /\ pc' = "tx_wait"

(***************************************************************************)
(* C1: after every drain cycle the LED is ON if the cycle's intensity is   *)
(* < 45, OFF if it is > 55, and what it was before the cycle if the        *)
(* intensity is in [45,55]; the LED is OFF from start-up until the first   *)
(* cycle whose intensity is < 45.                                          *)
(***************************************************************************)
C1_LedHysteresis ==
    /\ pc = "report" =>
          led = IF light_intensity < 45 THEN "ON"
                ELSE IF light_intensity > 55 THEN "OFF"
                ELSE history.led_before
    /\ ~history.low_seen => led = "OFF"

\* a cycle in the dead band that kept the LED ON
C1_Witness ==
    /\ pc = "report"
    /\ light_intensity \in 45 .. 55
    /\ history.low_seen
    /\ history.led_before = "ON"
    /\ led = "ON"

(***************************************************************************)
(* C2: the LED goes from OFF to ON only in a cycle whose intensity is      *)
(* < 45 and from ON to OFF only in a cycle whose intensity is > 55; an     *)
(* intensity in [45,55], 45 and 55 included, never changes it.             *)
(***************************************************************************)
C2_LedChangesOnlyOutside ==
    [][ /\ (led = "OFF" /\ led' = "ON") => (LedStep /\ light_intensity < 45)
        /\ (led = "ON" /\ led' = "OFF") => (LedStep /\ light_intensity > 55)
        /\ (LedStep /\ light_intensity \in 45 .. 55) => led' = led
      ]_vars

\* the LED was ON, the cycle's intensity was exactly 55 and it stayed ON
C2_Witness ==
    /\ pc = "report"
    /\ light_intensity = 55
    /\ history.led_before = "ON"
    /\ led = "ON"

(***************************************************************************)
(* C3: on every AmbientLight sample, the first and every later one, a raw  *)
(* value >= 0xFFF0 enters the filter as 0: a first sample seeds the        *)
(* accumulator and the reading with 0, a later sample updates the          *)
(* accumulator as the filter does for input 0.                             *)
(***************************************************************************)
C3_DarkCoercedOnEverySample ==
    [][ (/\ DrainStep
         /\ Head(fifo).channel = 2
         /\ Head(fifo).value >= 65520)
        => IF first_run[2]
           THEN filt_var'[2] = 0 /\ filtered_data'[2] = 0
           ELSE filt_var'[2] = filt_var[2] + (((0 - filt_var[2]) \div 256) * 4)
      ]_vars

(***************************************************************************)
(* C4: in a drain cycle the FIFO count is read exactly once, after the     *)
(* flag was cleared; exactly the samples buffered at that read are popped, *)
(* in order, each given once to the filter of its own channel, before the  *)
(* cycle goes on; samples stored after the read stay in the FIFO; every    *)
(* iteration of the drain loop lowers data_count by one, down to 0.        *)
(***************************************************************************)
C4_Applied ==
    /\ Len(history.applied) = Len(history.popped)
    /\ \A i \in DOMAIN history.applied :
          /\ history.applied[i].sample = history.popped[i]
          /\ history.applied[i].slot = history.popped[i].channel

C4_InCycle ==
    /\ pc = "drain" =>
          /\ history.count_reads = 1
          /\ data_count = Len(history.snap) - Len(history.popped)
          /\ history.popped \o SubSeq(fifo, 1, data_count) = history.snap
          /\ fifo = SubSeq(history.snap, Len(history.popped) + 1,
                           Len(history.snap)) \o history.arrived
    /\ pc \in {"convert", "control_led", "report"} =>
          /\ history.count_reads = 1
          /\ data_count = 0
          /\ history.popped = history.snap
          /\ fifo = history.arrived
    /\ C4_Applied

C4_Steps ==
    /\ history.count_reads' # history.count_reads /\ history.count_reads' # 0
          => pc = "get_count"
    /\ (pc' = "get_count" /\ pc # "get_count")
          => (pc = "clear_flag" /\ ~fifo_intr_flag')
    /\ Len(fifo') < Len(fifo) => (DrainStep /\ fifo' = Tail(fifo))
    /\ (pc = "drain" /\ pc' = "drain" /\ data_count' # data_count)
          => (data_count > 0 /\ data_count' = data_count - 1)
    /\ (pc = "drain" /\ pc' = "convert") => data_count = 0

C4_DrainSnapshot == [] C4_InCycle /\ [][C4_Steps]_vars

\* a drain is over: one sample was buffered at the count read and popped,
\* another arrived during the drain and is still in the FIFO
C4_Witness ==
    /\ pc = "convert"
    /\ Len(history.snap) = 1
    /\ history.popped = history.snap
    /\ Len(history.arrived) = 1
    /\ fifo = history.arrived

(***************************************************************************)
(* C5: the flag is cleared only by the step that directly follows the      *)
(* check that found it set, and that step comes before the read of the     *)
(* FIFO count; so a flag the handler sets later stays set until the next   *)
(* check, and a check that finds it set starts a drain cycle.              *)
(***************************************************************************)
C5_SignalNotMissed ==
    [][ /\ (fifo_intr_flag /\ ~fifo_intr_flag')
              => (pc = "clear_flag" /\ pc' = "get_count")
        /\ (pc' = "clear_flag" /\ pc # "clear_flag")
              => (pc = "check_flag" /\ fifo_intr_flag)
        /\ (pc' = "get_count" /\ pc # "get_count") => pc = "clear_flag"
        /\ (pc = "check_flag" /\ pc' # "check_flag" /\ fifo_intr_flag)
              => pc' = "clear_flag"
      ]_vars

\* the handler ran during a drain: the flag is set again while samples of
\* the snapshot are still being popped
C5_Witness ==
    /\ pc = "drain"
    /\ data_count > 0
    /\ Len(history.popped) > 0
    /\ fifo_intr_flag

(***************************************************************************)
(* C6: a wake-up that finds the flag clear goes back to the top of the     *)
(* loop and changes nothing: no sample popped, no filter state, reading,   *)
(* LED, counter or output.                                                 *)
(***************************************************************************)
C6_IdleWakeupDoesNothing ==
    [][ (pc = "check_flag" /\ pc' # "check_flag" /\ ~fifo_intr_flag)
        => /\ pc' = "tx_wait"
           /\ UNCHANGED <<fifo, fifo_intr_flag, data_count, fifo_data,
                          first_run, filt_var, filtered_data, fd_written,
                          temperature, light_intensity, led, display_delay,
                          uart_tx_active, history>>
      ]_vars

\* woken without the flag while a sample is buffered and a cycle has run
C6_Witness ==
    /\ pc = "check_flag"
    /\ ~fifo_intr_flag
    /\ Len(fifo) > 0
    /\ display_delay > 0

(***************************************************************************)
(* C7: counting the drain cycles from start-up, the reporting step of      *)
(* cycle n prints a status line if and only if n is a multiple of 5, and   *)
(* no other step prints one.                                               *)
(***************************************************************************)
C7_OneLinePerFiveCycles ==
    [][ /\ ReportStep =>
              /\ (history.cycle_mod5 = 0) <=> (history'.lines = 1)
              /\ (history.cycle_mod5 # 0) <=> (history'.lines = 0)
              /\ (history.cycle_mod5 = 0) <=> (uart_tx_active' /\ ~uart_tx_active)
        /\ history'.lines > history.lines => ReportStep
        /\ history'.cycle_mod5 # history.cycle_mod5
              => (pc = "check_flag" /\ fifo_intr_flag /\ pc' = "clear_flag")
      ]_vars

\* the cycle just finished was a multiple of 5 and printed its line
C7_Witness ==
    /\ pc = "tx_wait"
    /\ history.cycle_mod5 = 0
    /\ history.lines = 1
    /\ uart_tx_active

(***************************************************************************)
(* C8: display_delay is always in [0,4]; it starts at 0, the reporting     *)
(* step of a cycle that prints sets it to 0, the reporting step of any     *)
(* other cycle adds exactly 1, and nothing else changes it.                *)
(***************************************************************************)
C8_Range ==
    /\ display_delay \in 0 .. 4
    /\ pc = "cybsp_init" => display_delay = 0

C8_Steps ==
    /\ ReportStep =>
          display_delay' = IF history'.lines = 1 THEN 0 ELSE display_delay + 1
    /\ display_delay' # display_delay => ReportStep

C8_DisplayCounter == [] C8_Range /\ [][C8_Steps]_vars

\* four cycles have run without printing
C8_Witness ==
    /\ pc = "tx_wait"
    /\ display_delay = 4
    /\ history.lines = 0

(***************************************************************************)
(* C9: the first sample drained for a channel makes the channel's reading  *)
(* its raw value (0 for an AmbientLight value >= 0xFFF0) and its           *)
(* accumulator that value shifted left by 8 bits.                          *)
(***************************************************************************)
C9_FirstValue(s) ==
    IF s.channel = 2 /\ s.value >= 65520 THEN 0 ELSE s.value

C9_FirstSampleSeeds ==
    [][ (DrainStep /\ first_run[Head(fifo).channel])
        => LET s == Head(fifo)
           IN  /\ filtered_data'[s.channel] = C9_FirstValue(s)
               /\ filt_var'[s.channel] = C9_FirstValue(s) * 256
               /\ ~first_run'[s.channel]
      ]_vars

\* one cycle seeded the thermistor channel with 2000 and the ambient-light
\* channel with a dark sample
C9_Witness ==
    /\ pc = "convert"
    /\ Len(history.applied) = 2
    /\ \A i \in 1 .. 2 : history.applied[i].first
    /\ filtered_data[1] = 2000 /\ filt_var[1] = 512000
    /\ history.popped[2] = [channel |-> 2, value |-> 65520]
    /\ filtered_data[2] = 0 /\ filt_var[2] = 0

(***************************************************************************)
(* C10: a sample after the channel's first makes the accumulator           *)
(* acc + (((raw << 8) - acc) >> 8) * weight, weight 160 for the thermistor *)
(* and reference channels and 4 for ambient light, raw being the sample's  *)
(* raw value, and the reading (acc' >> 8) plus 1 if bit 0x80 of acc' is    *)
(* set.                                                                    *)
(***************************************************************************)
C10_Weight(ch) == IF ch = 2 THEN 4 ELSE 160

C10_SmoothingUpdate ==
    [][ (DrainStep /\ ~first_run[Head(fifo).channel])
        => LET s == Head(fifo)
               acc == filt_var[s.channel]
               new == acc + ((((s.value * 256) - acc) \div 256)
                             * C10_Weight(s.channel))
           IN  /\ filt_var'[s.channel] = new
               /\ filtered_data'[s.channel] =
                     (new \div 256) + (IF (new % 256) >= 128 THEN 1 ELSE 0)
      ]_vars

(***************************************************************************)
(* C11: a drain cycle filters every sample of the snapshot first, then     *)
(* calls get_temperature once with the filtered thermistor and reference   *)
(* readings and get_light_intensity once with the filtered ambient-light   *)
(* reading, then decides the LED, then reports, then goes back to the      *)
(* low-power wait; the main loop never exits.                              *)
(***************************************************************************)
C11_Filtered(n) == [i \in 1 .. n |-> "filter"]

C11_Conversions == <<"get_temperature", "get_light_intensity">>

C11_Order ==
    LET n == Len(history.popped)
    IN  /\ pc = "drain" => history.steps = C11_Filtered(n)
        /\ pc = "convert" =>
              /\ history.steps = C11_Filtered(n)
              /\ n = Len(history.snap)
        /\ pc = "control_led" =>
              history.steps = C11_Filtered(Len(history.snap)) \o C11_Conversions
        /\ pc = "report" =>
              history.steps = C11_Filtered(Len(history.snap))
                                 \o C11_Conversions \o <<"control_led">>
        /\ pc \in {"tx_wait", "deep_sleep", "asleep", "check_flag"} =>
              history.steps = << >>

C11_Steps ==
    /\ pc = "convert" /\ pc' # pc =>
          /\ pc' = "control_led"
          /\ fd_written[1] => temperature'.therm_count = filtered_data[1]
          /\ fd_written[0] => temperature'.ref_count = filtered_data[0]
          /\ fd_written[2] =>
                light_intensity' = get_light_intensity(filtered_data[2])
    /\ pc = "control_led" /\ pc' # pc => pc' = "report"
    /\ pc = "report" /\ pc' # pc => pc' = "tx_wait"
    /\ pc \in LoopPcs => pc' \in LoopPcs

C11_CycleOrder == []C11_Order /\ [][C11_Steps]_vars

\* a cycle that filtered two samples, converted once each and decided the
\* LED is about to report
C11_Witness ==
    /\ pc = "report"
    /\ Len(history.snap) = 2
    /\ history.steps = <<"filter", "filter", "get_temperature",
                         "get_light_intensity", "control_led">>
    /\ fd_written[1] /\ fd_written[0]
    /\ temperature = [therm_count |-> filtered_data[1],
                      ref_count |-> filtered_data[0]]

(***************************************************************************)
(* C17: when cybsp_init, cy_retarget_io_init, Cy_SysAnalog_Init,           *)
(* Cy_SysAnalog_DeepSleepInit, Cy_SAR_Init, Cy_SAR_CommonInit or the LED's *)
(* cyhal_gpio_init fails, execution stops there: the timer is never        *)
(* enabled, the main loop is never entered, and no sample is drained, no   *)
(* LED decision made and no status line emitted.                           *)
(***************************************************************************)
C17_InitPcs == {"cybsp_init", "retarget_io_init", "analog_init",
                "deepsleep_init", "sar_init", "sar_common_init", "gpio_init"}

C17_Stopped ==
    /\ history.init_failed <=> pc = "halted"
    /\ pc = "halted" =>
          /\ history.produced = 0 /\ fifo = << >> /\ ~fifo_intr_flag
          /\ history.count_reads = 0
          /\ \A c \in Channels : history.drained[c] = << >> /\ first_run[c]
          /\ history.steps = << >>
          /\ led = "OFF"
          /\ history.lines = 0 /\ history.cycle_mod5 = 0

C17_Steps ==
    /\ pc \in C17_InitPcs /\ history'.init_failed => pc' = "halted"
    /\ pc' = "halted" /\ pc # "halted" => pc \in C17_InitPcs
    /\ pc = "halted" =>
          /\ pc' = "halted"
          /\ UNCHANGED <<fifo_intr_flag, fifo, mainVars, history>>

C17_BringUpFailureFatal == []C17_Stopped /\ [][C17_Steps]_vars

\* a call after the banner was printed has failed
C17_Witness ==
    /\ pc = "halted"
    /\ history.init_failed
    /\ uart_tx_active

(***************************************************************************)
(* C18: every channel starts uninitialized (first_run set), becomes        *)
(* initialized when its first sample is drained, is never uninitialized    *)
(* again and its accumulator is seeded exactly once; it stays              *)
(* uninitialized as long as none of its samples has been drained.          *)
(***************************************************************************)
C18_State ==
    \A c \in Channels :
        /\ first_run[c] <=> history.drained[c] = << >>
        /\ history.seeds[c] = IF first_run[c] THEN 0 ELSE 1
        /\ pc = "cybsp_init" => first_run[c]

C18_Steps ==
    \A c \in Channels :
        /\ ~first_run[c] => ~first_run'[c]
        /\ first_run[c] /\ ~first_run'[c] =>
              /\ DrainStep /\ Head(fifo).channel = c
              /\ filt_var'[c] = Head(fifo).value * 256
                                   * (IF c = 2 /\ Head(fifo).value >= 65520
                                      THEN 0 ELSE 1)
        /\ history'.seeds[c] # history.seeds[c] => first_run[c]
        /\ first_run[c] /\ first_run'[c] => filt_var'[c] = filt_var[c]

C18_InitializedOnce == []C18_State /\ [][C18_Steps]_vars

\* the thermistor channel has filtered two samples and was seeded once,
\* the other two channels have seen no sample and are uninitialized
C18_Witness ==
    /\ Len(history.drained[1]) = 2
    /\ history.seeds[1] = 1 /\ ~first_run[1]
    /\ first_run[0] /\ first_run[2]
    /\ history.drained[0] = << >> /\ history.drained[2] = << >>

(***************************************************************************)
(* C19: when the thermistor channel's first sample is 2000 and its second  *)
(* is 2100, the first filtered reading is 2000 and the second is strictly  *)
(* between 2000 and 2100, the accumulator being updated with weight 160.   *)
(***************************************************************************)
C19_Scenario ==
    /\ DrainStep /\ Head(fifo) = [channel |-> 1, value |-> 2000]
          /\ history.drained[1] = << >>
       => filtered_data'[1] = 2000
    /\ DrainStep /\ Head(fifo) = [channel |-> 1, value |-> 2100]
          /\ history.drained[1] = <<2000>>
       => /\ filtered_data[1] = 2000
          /\ filtered_data'[1] > 2000 /\ filtered_data'[1] < 2100
          /\ filt_var'[1] =
                filt_var[1] + (((2100 * 256) - filt_var[1]) \div 256) * 160

C19_ThermistorTwoSamples == [][C19_Scenario]_vars

\* both samples have been filtered: accumulator 528000, reading 2063
C19_Witness ==
    /\ history.drained[1] = <<2000, 2100>>
    /\ filt_var[1] = 528000
    /\ filtered_data[1] = 2063

(***************************************************************************)
(* C20: a channel's accumulator and filtered reading depend only on the    *)
(* sequence of raw values that channel has received: two runs that give a  *)
(* channel the same sequence give it the same accumulator and reading      *)
(* after every sample, whatever samples of the other channels come in      *)
(* between and however the samples are split into batches.                 *)
(***************************************************************************)
RECURSIVE C20_Alone(_, _)
\* the filter state of channel c after it has received seq and nothing else
\* has happened
C20_Alone(seq, c) ==
    IF seq = << >>
    THEN [first |-> TRUE, acc |-> 0, out |-> 0]
    ELSE LET before == C20_Alone(SubSeq(seq, 1, Len(seq) - 1), c)
             s == [channel |-> c, value |-> seq[Len(seq)]]
             r == ProcessSample(s, before.first, before.acc)
         IN  [first |-> r.first, acc |-> r.acc, out |-> r.out]

C20_FilterDeterministic ==
    \A c \in Channels :
        LET alone == C20_Alone(history.drained[c], c)
        IN  /\ first_run[c] = alone.first
            /\ filt_var[c] = alone.acc
            /\ history.drained[c] # << >> => filtered_data[c] = alone.out

\* the thermistor channel got 2000 in one batch and 2100 in the next, after
\* an ambient-light sample, and is where it would be had it got the two
\* alone in one batch
C20_Witness ==
    /\ history.drained[1] = <<2000, 2100>>
    /\ history.drained[2] = <<600>>
    /\ history.popped = <<[channel |-> 2, value |-> 600],
                          [channel |-> 1, value |-> 2100]>>
    /\ filt_var[1] = C20_Alone(<<2000, 2100>>, 1).acc
    /\ filtered_data[1] = C20_Alone(<<2000, 2100>>, 1).out

(***************************************************************************)
(* C12: get_light_intensity returns a value in [0,100] for every int32     *)
(* adc_count for which adc_count * 100 does not overflow, negative         *)
(* arguments included.                                                     *)
(***************************************************************************)
C12_ResultInRange ==
    /\ pc = "light_done" => light_intensity >= 0 /\ light_intensity <= 100
    /\ \A i \in 1 .. Len(history.light_calls) :
          history.light_calls[i].result \in 0 .. 100

\* the call with the largest argument that does not overflow has returned
C12_Witness ==
    /\ pc = "light_done"
    /\ history.adc_count = 2147483647 \div 100
    /\ light_intensity \in 0 .. 100

(***************************************************************************)
(* C13: for every adc_count from the smallest whose scaled level           *)
(* ((adc_count * 100) >> 10) - 20 reaches 100 up to the largest for which  *)
(* adc_count * 100 does not overflow, get_light_intensity returns 100.     *)
(***************************************************************************)
C13_SaturatesAt100 ==
    pc = "light_done" /\ history.adc_count >= 0
       /\ ((history.adc_count * 100) \div 1024) - 20 >= 100
    => light_intensity = 100

(***************************************************************************)
(* C14: for all a <= b for which the multiplication by 100 does not        *)
(* overflow, the scaled level computed for a is <= the one computed for b  *)
(* and get_light_intensity(a) <= get_light_intensity(b).                   *)
(***************************************************************************)
C14_Monotonic ==
    \A i, j \in 1 .. Len(history.light_calls) :
        history.light_calls[i].adc_count <= history.light_calls[j].adc_count
        => /\ history.light_calls[i].als_level
                 <= history.light_calls[j].als_level
           /\ history.light_calls[i].result <= history.light_calls[j].result

(***************************************************************************)
(* C15: for every filtered ambient-light reading the filter can produce,   *)
(* get_light_intensity(adc_count) is                                       *)
(* min(100, max(0, ((max(adc_count, 0) * 100) >> 10) - 20));               *)
(* get_light_intensity(1024) = 80 and get_light_intensity(-5) = 0.         *)
(***************************************************************************)
C15_Max(a, b) == IF a >= b THEN a ELSE b

C15_Min(a, b) == IF a <= b THEN a ELSE b

C15_Formula(adc) ==
    C15_Min(100, C15_Max(0, ((C15_Max(adc, 0) * 100) \div 1024) - 20))

C15_ClosedForm ==
    pc = "light_done" =>
       /\ history.adc_count \in (-32769) .. 65536
             => light_intensity = C15_Formula(history.adc_count)
       /\ history.adc_count = 1024 => light_intensity = 80
       /\ history.adc_count = -5 => light_intensity = 0

\* get_light_intensity(1024) has returned 80
C15_Witness ==
    /\ pc = "light_done"
    /\ history.adc_count = 1024
    /\ light_intensity = 80

(***************************************************************************)
(* C16: when every ambient-light sample is dark (raw >= 0xFFF0) and        *)
(* batches keep arriving, then after finitely many drain cycles the light  *)
(* intensity is below 45 and the LED is ON, and it stays so, whatever the  *)
(* filter state was before.                                                *)
(***************************************************************************)
C16_Dark == led = "ON" /\ light_intensity < 45

C16_BlockedLightTurnsLedOn == <>[]C16_Dark

\* dark samples have taken the reading below zero and an LED decision
\* has found the intensity below 45
C16_Witness ==
    /\ led = "ON" /\ light_intensity < 45
    /\ ~first_run[2] /\ filtered_data[2] < 0
    /\ history.dark_raw = 65520
    /\ history.low_seen

(***************************************************************************)
(* C22: whenever Cy_SysPm_CpuEnterDeepSleep is about to be called,         *)
(* fifo_intr_flag is false, also when the interrupt handler ran during the *)
(* preceding drain, conversion, LED or reporting steps.                    *)
(***************************************************************************)
C22_NoSleepWithFlagSet == pc = "deep_sleep" => ~fifo_intr_flag

(***************************************************************************)
(* C22 as amended: fifo_intr_flag is true at the deep-sleep call exactly   *)
(* when the handler ran after the flag was last cleared; the flag is set   *)
(* by the handler only, and a flag that is set stays set through the wait  *)
(* until the statement that clears it at the start of a drain cycle.       *)
(***************************************************************************)
C22_FlagIsHandlerRun ==
    pc \in {"tx_wait", "deep_sleep", "asleep", "check_flag"} =>
        (fifo_intr_flag <=> history.isr_ran)

C22_FlagSteps ==
    /\ fifo_intr_flag /\ ~fifo_intr_flag' => pc = "clear_flag"
    /\ ~fifo_intr_flag /\ fifo_intr_flag' =>
          history'.isr_ran /\ UNCHANGED <<fifo, mainVars>>

C22_SleepWithFlagKept == []C22_FlagIsHandlerRun /\ [][C22_FlagSteps]_vars

\* the handler ran after a drain cycle had cleared the flag: the CPU is
\* about to sleep with the flag set and a sample waiting in the FIFO
C22_Witness ==
    /\ pc = "deep_sleep"
    /\ fifo_intr_flag /\ history.isr_ran
    /\ fifo # << >>
    /\ \E c \in Channels : ~first_run[c]

(***************************************************************************)
(* C23: in every drain cycle, whatever batches arrive, each of the three   *)
(* entries of filtered_data has been assigned by a sample of its channel   *)
(* before get_temperature and get_light_intensity are called.              *)
(***************************************************************************)
C23_ConvertersReadWrittenData ==
    pc = "convert" => \A c \in Channels : fd_written[c]

(***************************************************************************)
(* C24: a raw value enters the filter as the same number, the unsigned     *)
(* 16-bit raw value, on the channel's first sample and on a later one      *)
(* (ambient light: for values below the dark threshold): the first sample  *)
(* seeds the accumulator with raw << 8 and a later one moves it towards    *)
(* that same raw << 8.                                                     *)
(***************************************************************************)
C24_Entering(s) == s.value * 256

C24_Steps ==
    DrainStep /\ ~(Head(fifo).channel = 2 /\ Head(fifo).value >= 65520)
    => LET s == Head(fifo)
           c == s.channel
       IN  IF first_run[c]
           THEN filt_var'[c] = C24_Entering(s)
           ELSE filt_var'[c] = filt_var[c]
                   + ((C24_Entering(s) - filt_var[c]) \div 256)
                        * (IF c = 2 THEN 4 ELSE 160)

C24_SameNumberFirstAndLater == [][C24_Steps]_vars

(***************************************************************************)
(* C27: draining a sample of one channel leaves the accumulator, the       *)
(* initialized flag and the filtered reading of the other two channels     *)
(* unchanged, on the first sample and on every later one.                  *)
(***************************************************************************)
C27_Steps ==
    DrainStep =>
        \A c \in Channels \ {Head(fifo).channel} :
            /\ filt_var'[c] = filt_var[c]
            /\ first_run'[c] = first_run[c]
            /\ filtered_data'[c] = filtered_data[c]
            /\ fd_written'[c] = fd_written[c]

C27_ChannelsIndependent == [][C27_Steps]_vars

\* the thermistor channel has just filtered its second sample and the
\* ambient-light channel is where its only sample left it
C27_Witness ==
    /\ history.popped # << >>
    /\ history.popped[Len(history.popped)] = [channel |-> 1, value |-> 2100]
    /\ history.drained[1] = <<2000, 2100>>
    /\ history.drained[2] = <<600>>
    /\ ~first_run[2] /\ filt_var[2] = 153600 /\ filtered_data[2] = 600
    /\ first_run[0] /\ filt_var[0] = 0

(***************************************************************************)
(* C28: a drain cycle in which the filtered reference reading is 0 is      *)
(* reachable; get_temperature is still called with ref_count = 0 in it,    *)
(* and the cycle goes on to the LED decision and the reporting step.       *)
(***************************************************************************)
C28_Called ==
    pc \in {"control_led", "report"} /\ fd_written[0] /\ filtered_data[0] = 0
    => /\ temperature.ref_count = 0
       /\ \E i \in 1 .. Len(history.steps) :
             history.steps[i] = "get_temperature"

C28_Steps ==
    fd_written[0] /\ filtered_data[0] = 0 =>
       /\ pc = "convert" /\ pc' # pc =>
             pc' = "control_led" /\ temperature'.ref_count = 0
       /\ pc = "control_led" /\ pc' # pc => pc' = "report"
       /\ pc = "report" /\ pc' # pc => pc' = "tx_wait"

C28_NoGuardOnRefCount == []C28_Called /\ [][C28_Steps]_vars

\* the reference channel's reading is 0, get_temperature was called with
\* it and the cycle has reached the reporting step
C28_Witness ==
    /\ pc = "report"
    /\ fd_written[0] /\ filtered_data[0] = 0
    /\ history.drained[0] # << >>
    /\ temperature.ref_count = 0
    /\ history.steps[Len(history.steps)] = "control_led"

(***************************************************************************)
(* C29: the main loop never enters the low-power wait while a UART         *)
(* transmission is active, also after a cycle that emitted a status line.  *)
(***************************************************************************)
C29_State == pc \in {"deep_sleep", "asleep"} => ~uart_tx_active

C29_Steps ==
    /\ pc = "tx_wait" /\ pc' # pc => ~uart_tx_active /\ pc' = "deep_sleep"
    /\ pc' = "deep_sleep" /\ pc # pc' => pc = "tx_wait"

C29_NoSleepWhileTransmitting == []C29_State /\ [][C29_Steps]_vars

\* the cycle before emitted a status line; the loop has waited for the
\* UART and is about to call Cy_SysPm_CpuEnterDeepSleep
C29_Witness ==
    /\ pc = "deep_sleep"
    /\ history.lines = 1
    /\ ~uart_tx_active

(***************************************************************************)
(* C25: for every sample after a channel's first, the filtered reading     *)
(* returned lies between the channel's previous filtered reading and the   *)
(* input passed to low_pass_filter (the signed 16-bit value), ends         *)
(* included, and the accumulator moves towards input << 8 or stays.        *)
(***************************************************************************)
C25_Between(x, a, b) == (a <= x /\ x <= b) \/ (b <= x /\ x <= a)

C25_Signed(v) == IF v >= 32768 THEN v - 65536 ELSE v

C25_Steps ==
    DrainStep /\ ~first_run[Head(fifo).channel]
    => LET c == Head(fifo).channel
           input == C25_Signed(Head(fifo).value)
       IN  /\ C25_Between(filtered_data'[c], filtered_data[c], input)
           /\ input * 256 >= filt_var[c] => filt_var'[c] >= filt_var[c]
           /\ input * 256 <= filt_var[c] => filt_var'[c] <= filt_var[c]

C25_NoOvershoot == [][C25_Steps]_vars

\* a smoothing step has moved the reading strictly between the previous
\* reading 2000 and the input 2100
C25_Witness ==
    /\ fifo_data = [channel |-> 1, value |-> 2100]
    /\ fifo = << >>
    /\ ~first_run[1]
    /\ filtered_data[1] > 2000 /\ filtered_data[1] < 2100

(***************************************************************************)
(* C26: when a channel gets the same input X (signed 16-bit) on every      *)
(* sample, its filtered reading stops changing after finitely many         *)
(* samples, and it stops at X or X - 1, for the weights 160 and 4 and from *)
(* every reachable accumulator value.                                      *)
(***************************************************************************)
C26_Sample == IF fifo # << >> THEN Head(fifo) ELSE fifo_data

C26_Near ==
    LET x == C25_Signed(C26_Sample.value)
    IN  filtered_data[C26_Sample.channel] \in {x - 1, x}

C26_Still == filtered_data' = filtered_data /\ filt_var' = filt_var

C26_Settles == <>[]C26_Near /\ <>[][C26_Still]_vars

\* the ambient-light filter has come down from 65535 to the input 2000
\* and the same sample is in the next batch
C26_Witness ==
    /\ fifo = <<[channel |-> 2, value |-> 2000]>>
    /\ ~first_run[2]
    /\ filtered_data[2] \in {1999, 2000}
    /\ filt_var[2] # 512000

====
